---- MODULE Spec2Model ----
(***************************************************************************)
(* Model of the shared-service-client request pipeline (src/client.go):    *)
(* Client.doRequest = backoff.Retry( circuitBreaker.Execute( http Do )).   *)
(*                                                                         *)
(* Time is a discrete clock `now`; all durations of a Config are small     *)
(* integers in the same abstract unit.  Errors are modelled by their       *)
(* message text: a sequence of the segments that fmt.Errorf / url.Error    *)
(* join with ": " (the empty sequence is the nil error).  A Response is    *)
(* its status code (0 is the nil *Response).  A transport attempt may take *)
(* any amount of time: Config.Timeout is not bounded against TimeoutCB.    *)
(***************************************************************************)
EXTENDS Integers, Sequences, FiniteSets, TLC

\* ---------------------------------------------------------------- bounds
MaxCalls == 5
MaxTime == 3

\* ------------------------------------------------------ program constants
\* DefaultConfig: MaxRequests: 3
DefaultMaxRequests == 3
\* DefaultConfig: ReadyToTrip = counts.ConsecutiveFailures > 5
DefaultTripAfter == 5
\* README, "Circuit Breaker": "Opens after 5 consecutive failures"
DocumentedTripCount == 5

\* two concurrent callers of one Client
Callers == {1, 2}

\* ----------------------------------------------------------------- Config
\* Config values a caller of New may pass.  MaxRequests 0 is the zero value
\* of the field; TripAfter n stands for ReadyToTrip = ConsecutiveFailures > n
\* (5 is DefaultConfig's and also the breaker's own default when nil).
\* MaxElapsedTime 0 is the value the retry library reads as "no ceiling".
\* DefaultConfig, with its durations scaled to the model's clock
DefaultConfig ==
  [ MaxRequests |-> DefaultMaxRequests, TripAfter |-> DefaultTripAfter,
    Interval |-> 1, TimeoutCB |-> 1, InitialInterval |-> 1, MaxInterval |-> 2,
    MaxElapsedTime |-> 3, Multiplier |-> 2, RandomizationPct |-> 50 ]

Configs ==
  { DefaultConfig,
    [DefaultConfig EXCEPT !.TripAfter = 0, !.MaxElapsedTime = 0],
    [DefaultConfig EXCEPT !.TripAfter = 0, !.MaxRequests = 0] }

VARIABLES
  cfg,        \* the Config given to New
  now,        \* wall clock
  calls,      \* number of logical calls started so far
  cb,         \* Client.circuitBreaker (gobreaker.CircuitBreaker)
  bo,         \* Client.retryBackoff (backoff.ExponentialBackOff), one per Client
  pc,         \* per caller: "idle", "loop" (in backoff.Retry), "inflight" (in Do)
  body,       \* per caller: how the current call's request was built ("none" when idle)
  ctxErr,     \* per caller: ctx.Err() text, "" while the context is live
  iters,      \* per caller: retry-loop iterations (operation() invocations)
  attempts,   \* per caller: httpClient.Do invocations of the current call
  outs,       \* per caller: outcomes of the attempts of the current call
  gen,        \* per caller: breaker generation the in-flight attempt was admitted in
  wake,       \* per caller: when the retry timer fires
  span,       \* per caller: the span of the current call
  delays,     \* history: the intervals and delays one run of the retry policy gave
  last,       \* the logical call that ended last: its result, span and counts
  hoAdmitted  \* history: attempts admitted in the current Half-Open period

vars == << cfg, now, calls, cb, bo, pc, body, ctxErr, iters, attempts, outs, gen,
           wake, span, delays, last, hoAdmitted >>

\* ------------------------------------------------------------ error texts
NilErr == << >>
ErrOpenState == << "circuit breaker is open" >>
ErrTooManyRequests == << "too many requests" >>
MarshalErr == << "json: unsupported type" >>
ClientTimeoutMsg == "context deadline exceeded (Client.Timeout exceeded while awaiting headers)"

\* fmt.Errorf("<prefix>: %w", err)
Wrap(prefix, err) == << prefix >> \o err

\* (*url.Error).Error(): Op + " " + quoted URL + ": " + Err.  Every error that
\* http.Client.Do returns is a *url.Error.
UrlError(cause) == << "Get \"http://svc/path\"", cause >>

\* errors.Unwrap chain's last element
Cause(err) == IF err = NilErr THEN NilErr ELSE << err[Len(err)] >>

\* ------------------------------------------------------ transport outcomes
Statuses == {200, 304, 404, 429, 503}
NetCauses == {"connection refused", ClientTimeoutMsg}
CtxCauses == {"context canceled"}

\* What one httpClient.Do + io.ReadAll can yield: a status, a transport
\* error, a body-read error, or a panic that unwinds the closure.
StatusOutcome(s) == [status |-> s, neterr |-> "", readerr |-> FALSE, panic |-> FALSE]
NetOutcome(m) == [status |-> 0, neterr |-> m, readerr |-> FALSE, panic |-> FALSE]
ReadOutcome(s) == [status |-> s, neterr |-> "", readerr |-> TRUE, panic |-> FALSE]
PanicOutcome == [status |-> 0, neterr |-> "", readerr |-> FALSE, panic |-> TRUE]

Outcomes(ctx) ==
  {StatusOutcome(s) : s \in Statuses}
    \cup {NetOutcome(m) : m \in NetCauses}
    \cup {ReadOutcome(200), PanicOutcome}
    \cup (IF ctx = "" THEN {} ELSE {NetOutcome(ctx)})

\* ------------------------------------------------------------- doRequest
\* the status test inside the breaker closure
RetryableStatus_from400(s) == s >= 400
RetryableStatus_only5xx(s) == s >= 500
RetryableStatus(s) == s >= 500 \/ s = 429

\* The error the closure passed to circuitBreaker.Execute returns
ClosureErr(o) ==
  IF o.neterr # "" THEN UrlError(o.neterr)
  ELSE IF o.readerr THEN Wrap("read response", << "unexpected EOF" >>)
  ELSE IF RetryableStatus(o.status) THEN << "retryable status", "body" >>
  ELSE NilErr

\* isRetryableError: compares err.Error() with four literal texts
RetryableTexts ==
  { << "context deadline exceeded" >>, << "context canceled" >>,
    << "connection refused" >>, << "connection reset" >> }

isRetryableError_byCause(err) ==
  err # NilErr /\ (Cause(err) \in RetryableTexts \/ err[1] = "retryable status")
isRetryableError_always(err) == err # NilErr
isRetryableError(err) == err # NilErr /\ err \in RetryableTexts

\* Response.IsSuccess
IsSuccess(status) == status >= 200 /\ status < 300

\* --------------------------------------------- gobreaker.CircuitBreaker
ZeroCounts ==
  [ Requests |-> 0, TotalSuccesses |-> 0, TotalFailures |-> 0,
    ConsecutiveSuccesses |-> 0, ConsecutiveFailures |-> 0 ]

\* Counts.onRequest / onSuccess / onFailure
CountsOnRequest(n) == [n EXCEPT !.Requests = @ + 1]
CountsOnSuccess(n) ==
  [n EXCEPT !.TotalSuccesses = @ + 1, !.ConsecutiveSuccesses = @ + 1,
            !.ConsecutiveFailures = 0]
CountsOnFailure(n) ==
  [n EXCEPT !.TotalFailures = @ + 1, !.ConsecutiveFailures = @ + 1,
            !.ConsecutiveSuccesses = 0]

\* NewCircuitBreaker: Settings.MaxRequests == 0 becomes 1
EffectiveMaxRequests(c) == IF c.MaxRequests = 0 THEN 1 ELSE c.MaxRequests

\* Settings.ReadyToTrip, as configured (DefaultConfig: ConsecutiveFailures > 5)
ReadyToTrip(c, n) == n.ConsecutiveFailures > c.TripAfter

\* toNewGeneration: expiry 0 is the zero time.Time
ToNewGeneration(c, b, t) ==
  [b EXCEPT !.generation = @ + 1,
            !.counts = ZeroCounts,
            !.expiry = CASE b.state = "closed" ->
                              IF c.Interval = 0 THEN 0 ELSE t + c.Interval
                         [] b.state = "open" -> t + c.TimeoutCB
                         [] OTHER -> 0]

\* setState
SetState(c, b, s, t) ==
  IF b.state = s THEN b ELSE ToNewGeneration(c, [b EXCEPT !.state = s], t)

\* currentState: the lazy transitions, taken by whoever enters the breaker
CurrentState_eager(c, b, t) ==
  CASE b.state = "closed" /\ b.expiry # 0 /\ b.expiry < t -> ToNewGeneration(c, b, t)
    [] b.state = "open" -> SetState(c, b, "half-open", t)
    [] OTHER -> b
CurrentState(c, b, t) ==
  CASE b.state = "closed" /\ b.expiry # 0 /\ b.expiry < t -> ToNewGeneration(c, b, t)
    [] b.state = "open" /\ b.expiry < t -> SetState(c, b, "half-open", t)
    [] OTHER -> b

\* beforeRequest: the breaker after the call, and the error it answers
BeforeRequestErr_noProbeLimit(c, b) ==
  IF b.state = "open" THEN ErrOpenState ELSE NilErr
BeforeRequestErr(c, b) ==
  IF b.state = "open" THEN ErrOpenState
  ELSE IF b.state = "half-open" /\ b.counts.Requests >= EffectiveMaxRequests(c)
    THEN ErrTooManyRequests
    ELSE NilErr

BeforeRequest(c, b, t) ==
  LET b1 == CurrentState(c, b, t)
      e == BeforeRequestErr(c, b1)
  IN [ cb |-> IF e = NilErr THEN [b1 EXCEPT !.counts = CountsOnRequest(@)] ELSE b1,
       err |-> e,
       generation |-> b1.generation ]

\* onSuccess / onFailure
OnSuccess_closeAtOnce(c, b, t) ==
  CASE b.state = "closed" -> [b EXCEPT !.counts = CountsOnSuccess(@)]
    [] b.state = "half-open" -> SetState(c, b, "closed", t)
    [] OTHER -> b
OnSuccess(c, b, t) ==
  CASE b.state = "closed" -> [b EXCEPT !.counts = CountsOnSuccess(@)]
    [] b.state = "half-open" ->
         LET b1 == [b EXCEPT !.counts = CountsOnSuccess(@)]
         IN IF b1.counts.ConsecutiveSuccesses >= EffectiveMaxRequests(c)
              THEN SetState(c, b1, "closed", t)
              ELSE b1
    [] OTHER -> b

OnFailure_halfOpenStays(c, b, t) ==
  CASE b.state = "closed" ->
         LET b1 == [b EXCEPT !.counts = CountsOnFailure(@)]
         IN IF ReadyToTrip(c, b1.counts) THEN SetState(c, b1, "open", t) ELSE b1
    [] b.state = "half-open" -> [b EXCEPT !.counts = CountsOnFailure(@)]
    [] OTHER -> b
OnFailure(c, b, t) ==
  CASE b.state = "closed" ->
         LET b1 == [b EXCEPT !.counts = CountsOnFailure(@)]
         IN IF ReadyToTrip(c, b1.counts) THEN SetState(c, b1, "open", t) ELSE b1
    [] b.state = "half-open" -> SetState(c, b, "open", t)
    [] OTHER -> b

\* afterRequest: a result of an older generation is dropped
AfterRequest_countsStale(c, b, before, success, t) ==
  LET b1 == CurrentState(c, b, t)
  IN IF success THEN OnSuccess(c, b1, t) ELSE OnFailure(c, b1, t)
AfterRequest(c, b, before, success, t) ==
  LET b1 == CurrentState(c, b, t)
  IN IF b1.generation # before THEN b1
     ELSE IF success THEN OnSuccess(c, b1, t) ELSE OnFailure(c, b1, t)

\* NewCircuitBreaker
NewCircuitBreaker(c, t) ==
  ToNewGeneration(c, [state |-> "closed", generation |-> 0,
                      counts |-> ZeroCounts, expiry |-> 0], t)

\* ------------------------------------------- backoff.ExponentialBackOff
\* getRandomValueFromInterval, with random = r / 4 for r in 0..3
RandomDraws == 0..3
GetRandomValueFromInterval(pct, r, cur) ==
  IF pct = 0 THEN cur
  ELSE LET delta == (pct * cur) \div 100
           lo == cur - delta
           hi == cur + delta
       IN lo + ((r * (hi - lo + 1)) \div 4)

\* incrementCurrentInterval
IncrementCurrentInterval_noCap(c, cur) == cur * c.Multiplier
IncrementCurrentInterval(c, cur) ==
  IF cur * c.Multiplier >= c.MaxInterval THEN c.MaxInterval ELSE cur * c.Multiplier

\* ExponentialBackOff.NextBackOff: -1 is backoff.Stop
Stop == -1
NextBackOff(c, elapsed, next) ==
  IF c.MaxElapsedTime # 0 /\ elapsed + next > c.MaxElapsedTime THEN Stop ELSE next

\* ------------------------------------------------------------------ state
NoSpan == [started |-> 0, ended |-> 0, status |-> "unset", code |-> 0]
NoCall ==
  [ exit |-> "none", status |-> 0, err |-> NilErr, iters |-> 0, attempts |-> 0,
    outs |-> << >>, span |-> NoSpan ]

\* New(cfg).  NewExponentialBackOff resets the policy with the library's
\* own initial interval before New overwrites the fields; every Retry
\* resets it again before reading it.
Init ==
  /\ cfg \in Configs
  /\ now = 1
  /\ calls = 0
  /\ cb = NewCircuitBreaker(cfg, 1)
  /\ bo = [interval |-> 5, start |-> 1]
  /\ pc = [c \in Callers |-> "idle"]
  /\ body = [c \in Callers |-> "none"]
  /\ ctxErr = [c \in Callers |-> ""]
  /\ iters = [c \in Callers |-> 0]
  /\ attempts = [c \in Callers |-> 0]
  /\ outs = [c \in Callers |-> << >>]
  /\ gen = [c \in Callers |-> 0]
  /\ wake = [c \in Callers |-> 0]
  /\ span = [c \in Callers |-> NoSpan]
  /\ delays = << >>
  /\ last = NoCall
  /\ hoAdmitted = 0

\* tracer.Start
StartSpan == [NoSpan EXCEPT !.started = @ + 1]

\* defer span.End(): runs when doRequest returns and when a panic unwinds it
DeferredEnd_onlyOnReturn(sp, panicking) ==
  IF panicking THEN sp ELSE [sp EXCEPT !.ended = @ + 1]
DeferredEnd(sp, panicking) == [sp EXCEPT !.ended = @ + 1]

\* the test that picks the span status of a returned Response
StatusIsError_non2xx(status) == ~(status >= 200 /\ status < 300)
StatusIsError(status) == status >= 400

\* The span at doRequest's return: SetStatus, the http.status_code
\* attribute, and the deferred span.End()
SpanAtReturn(sp, status, err) ==
  DeferredEnd([sp EXCEPT
                 !.code = IF err # NilErr THEN 0 ELSE status,
                 !.status = IF err # NilErr \/ StatusIsError(status)
                              THEN "error" ELSE "ok"],
              FALSE)

\* The call is over: its per-call state ends with it, `rec` is what the
\* caller and the tracer are left with.
EndCall(c, rec) ==
  /\ pc' = [pc EXCEPT ![c] = "idle"]
  /\ last' = rec
  /\ body' = [body EXCEPT ![c] = "none"]
  /\ ctxErr' = [ctxErr EXCEPT ![c] = ""]
  /\ iters' = [iters EXCEPT ![c] = 0]
  /\ attempts' = [attempts EXCEPT ![c] = 0]
  /\ outs' = [outs EXCEPT ![c] = << >>]
  /\ gen' = [gen EXCEPT ![c] = 0]
  /\ wake' = [wake EXCEPT ![c] = 0]
  /\ span' = [span EXCEPT ![c] = NoSpan]

\* doRequest returns (resp, nil) or (nil, err).  sp is the call's span, n, a,
\* os its iterations, attempts and outcomes at that point.
Return(c, sp, status, err, n, a, os) ==
  EndCall(c, [ exit |-> "return",
               status |-> IF err # NilErr THEN 0 ELSE status,
               err |-> err,
               iters |-> n, attempts |-> a, outs |-> os,
               span |-> SpanAtReturn(sp, status, err) ])

\* A panic inside the closure unwinds Execute, Retry and doRequest: nothing
\* is returned, no status is set on the span, the deferred End still runs.
Panic(c, n, a, os) ==
  EndCall(c, [ exit |-> "panic", status |-> 0, err |-> NilErr,
               iters |-> n, attempts |-> a, outs |-> os,
               span |-> DeferredEnd(span[c], TRUE) ])

\* backoff.Retry returned: (nil, "request failed: %w") or (resp, nil)
Finish(c, status, err, n, a, os) ==
  Return(c, span[c], status,
         IF err # NilErr THEN Wrap("request failed", err) ELSE NilErr, n, a, os)

\* history of the Half-Open period, kept beside the breaker's own counts
Probes(admitted) ==
  hoAdmitted' =
    IF cb'.state = "half-open"
      THEN (IF cb.state = "half-open" THEN hoAdmitted ELSE 0)
             + (IF admitted THEN 1 ELSE 0)
      ELSE 0

\* The retry loop after operation() returned a retryable err:
\* backOffContext.NextBackOff (Stop when the context is done), then the timer
RetryOrStop(c, err, n, a, os) ==
  IF ctxErr[c] # ""
    THEN Finish(c, 0, << ctxErr[c] >>, n, a, os) /\ bo' = bo
  ELSE \E r \in RandomDraws :
    LET next == GetRandomValueFromInterval(cfg.RandomizationPct, r, bo.interval)
        d == NextBackOff(cfg, now - bo.start, next)
    IN /\ bo' = [bo EXCEPT !.interval = IncrementCurrentInterval(cfg, @)]
       /\ IF d = Stop
            THEN Finish(c, 0, err, n, a, os)
            ELSE /\ pc' = [pc EXCEPT ![c] = "loop"]
                 /\ wake' = [wake EXCEPT ![c] = now + d]
                 /\ iters' = [iters EXCEPT ![c] = n]
                 /\ attempts' = [attempts EXCEPT ![c] = a]
                 /\ outs' = [outs EXCEPT ![c] = os]
                 /\ gen' = [gen EXCEPT ![c] = 0]
                 /\ UNCHANGED << last, body, ctxErr, span >>

\* The retry loop after operation() returned err: backoff.Permanent(err)
\* ends Retry at once when the error is not retryable.
AfterError_noPermanent(c, err, n, a, os) == RetryOrStop(c, err, n, a, os)
AfterError(c, err, n, a, os) ==
  IF ~isRetryableError(err)
    THEN Finish(c, 0, err, n, a, os) /\ bo' = bo
    ELSE RetryOrStop(c, err, n, a, os)

\* The two early returns of doRequest: json.Marshal failed, or
\* http.NewRequestWithContext failed
EarlyReturn_onlyNewRequest(how) == how = "newrequest"
EarlyReturn(how) == how \in {"marshal", "newrequest"}

\* doRequest up to the first iteration of backoff.Retry: span start, body
\* marshalling, request construction, then Retry's b.Reset()
DoRequest(c) ==
  /\ pc[c] = "idle"
  /\ calls < MaxCalls
  /\ calls' = calls + 1
  /\ \E how \in {"ok", "marshal", "newrequest"} :
       IF ~EarlyReturn(how)
         THEN /\ pc' = [pc EXCEPT ![c] = "loop"]
              /\ body' = [body EXCEPT ![c] = how]
              /\ span' = [span EXCEPT ![c] = StartSpan]
              /\ bo' = [interval |-> cfg.InitialInterval, start |-> now]
              /\ UNCHANGED << last, ctxErr, iters, attempts, outs, gen, wake >>
         ELSE /\ Return(c, StartSpan, 0,
                        IF how = "marshal"
                          THEN Wrap("marshal request body", MarshalErr)
                          ELSE Wrap("create request", << "invalid URL" >>),
                        0, 0, << >>)
              /\ bo' = bo
  /\ UNCHANGED << cfg, now, cb, hoAdmitted, delays >>

\* The head of one retry iteration.  After a backoff was started the call
\* sits in select { <-ctx.Done(); <-timer }; with both ready either is taken.
\* Then operation() calls circuitBreaker.Execute, whose beforeRequest admits
\* the attempt (httpClient.Do is invoked) or rejects it.
Operation(c) ==
  /\ pc[c] = "loop"
  /\ \E viaCtx \in (IF iters[c] > 0 THEN BOOLEAN ELSE {FALSE}) :
       IF viaCtx
         THEN /\ ctxErr[c] # ""
              /\ Finish(c, 0, << ctxErr[c] >>, iters[c], attempts[c], outs[c])
              /\ UNCHANGED << cb, bo, hoAdmitted >>
         ELSE /\ iters[c] = 0 \/ now >= wake[c]
              /\ LET b == BeforeRequest(cfg, cb, now)
                 IN /\ cb' = b.cb
                    /\ Probes(b.err = NilErr)
                    /\ IF b.err = NilErr
                         THEN /\ pc' = [pc EXCEPT ![c] = "inflight"]
                              /\ gen' = [gen EXCEPT ![c] = b.generation]
                              /\ iters' = [iters EXCEPT ![c] = @ + 1]
                              /\ attempts' = [attempts EXCEPT ![c] = @ + 1]
                              /\ UNCHANGED << bo, wake, last, body, ctxErr, outs,
                                              span >>
                         ELSE AfterError(c, b.err, iters[c] + 1, attempts[c], outs[c])
  /\ UNCHANGED << cfg, now, calls, delays >>

\* httpClient.Do and io.ReadAll return; the closure classifies the status;
\* Execute's afterRequest counts the result; the retry loop decides.  When
\* the closure panics, Execute's deferred recover counts a failure and
\* panics again.
OperationReturn(c) ==
  /\ pc[c] = "inflight"
  /\ \E o \in Outcomes(ctxErr[c]) :
       LET e == ClosureErr(o)
           os == Append(outs[c], o)
       IN /\ cb' = AfterRequest(cfg, cb, gen[c], e = NilErr /\ ~o.panic, now)
          /\ Probes(FALSE)
          /\ IF o.panic
               THEN Panic(c, iters[c], attempts[c], os) /\ bo' = bo
             ELSE IF e = NilErr
               THEN Finish(c, o.status, NilErr, iters[c], attempts[c], os) /\ bo' = bo
               ELSE AfterError(c, e, iters[c], attempts[c], os)
  /\ UNCHANGED << cfg, now, calls, delays >>

\* The caller cancels the call context, or its deadline passes
CtxDone(c) ==
  /\ pc[c] \in {"loop", "inflight"}
  /\ ctxErr[c] = ""
  /\ \E e \in CtxCauses : ctxErr' = [ctxErr EXCEPT ![c] = e]
  /\ UNCHANGED << cfg, now, calls, cb, bo, pc, body, iters, attempts, outs, gen,
                  wake, span, delays, last, hoAdmitted >>

\* Time passes
Tick ==
  /\ now < MaxTime
  /\ now' = now + 1
  /\ UNCHANGED << cfg, calls, cb, bo, pc, body, ctxErr, iters, attempts, outs, gen,
                  wake, span, delays, last, hoAdmitted >>

Next ==
  \/ \E c \in Callers : DoRequest(c)
  \/ \E c \in Callers : Operation(c)
  \/ \E c \in Callers : OperationReturn(c)
  \/ \E c \in Callers : CtxDone(c)
  \/ Tick

Spec == Init /\ [][Next]_vars

\* ------------------------------------------------- the retry policy alone
\* The ExponentialBackOff that New configures, run on its own: Reset, then
\* NextBackOff after NextBackOff, each delay waited in full.  Intervals are
\* on a finer clock than under Spec so that the randomization has room.
MaxDelays == 4
BackoffConfigs ==
  { [DefaultConfig EXCEPT !.InitialInterval = 4, !.MaxInterval = 16,
                          !.MaxElapsedTime = e, !.Multiplier = m,
                          !.RandomizationPct = p] :
      e \in {0, 60}, m \in {2, 3}, p \in {0, 50, 100} }

BackoffInit ==
  /\ cfg \in BackoffConfigs
  /\ now = 1
  /\ calls = 0
  /\ cb = NewCircuitBreaker(cfg, 1)
  /\ bo = [interval |-> cfg.InitialInterval, start |-> 1]
  /\ pc = [c \in Callers |-> "idle"]
  /\ body = [c \in Callers |-> "none"]
  /\ ctxErr = [c \in Callers |-> ""]
  /\ iters = [c \in Callers |-> 0]
  /\ attempts = [c \in Callers |-> 0]
  /\ outs = [c \in Callers |-> << >>]
  /\ gen = [c \in Callers |-> 0]
  /\ wake = [c \in Callers |-> 0]
  /\ span = [c \in Callers |-> NoSpan]
  /\ delays = << >>
  /\ last = NoCall
  /\ hoAdmitted = 0

\* ExponentialBackOff.NextBackOff gives a delay, and the delay passes
NextDelay ==
  /\ Len(delays) < MaxDelays
  /\ \E r \in RandomDraws :
       LET next == GetRandomValueFromInterval(cfg.RandomizationPct, r, bo.interval)
           d == NextBackOff(cfg, now - bo.start, next)
       IN /\ d # Stop
          /\ delays' = Append(delays, [interval |-> bo.interval, delay |-> d])
          /\ bo' = [bo EXCEPT !.interval = IncrementCurrentInterval(cfg, @)]
          /\ now' = now + d
  /\ UNCHANGED << cfg, calls, cb, pc, body, ctxErr, iters, attempts, outs, gen,
                  wake, span, last, hoAdmitted >>

BackoffSpec == BackoffInit /\ [][NextDelay]_vars

\* ======================================================================
\* Properties
\* ======================================================================
\* Steps of one caller, read off the program counters
Admitted(c) == pc[c] = "loop" /\ pc'[c] = "inflight"
Completed(c) == pc[c] = "inflight" /\ pc'[c] # "inflight"
Returned(c) == pc[c] \in {"loop", "inflight"} /\ pc'[c] = "idle"
\* c ran the head of a retry iteration (admitted, rejected, or timer/ctx)
Iterated(c) == pc[c] = "loop" /\ (pc'[c] # "loop" \/ iters'[c] # iters[c])
\* the outcomes of c's call after a step in which its attempt completed
OutsAfter(c) == IF pc'[c] = "idle" THEN last'.outs ELSE outs'[c]
OutcomeAfter(c) == OutsAfter(c)[Len(OutsAfter(c))]

\* the retry policy would grant another delay now
BudgetLeft ==
  \A r \in RandomDraws :
    LET next == GetRandomValueFromInterval(cfg.RandomizationPct, r, bo.interval)
    IN cfg.MaxElapsedTime = 0 \/ (now - bo.start) + next <= cfg.MaxElapsedTime

IsStatusOutcome(o) == o.neterr = "" /\ ~o.readerr /\ ~o.panic
\* the probe limit the breaker enforces for a configured MaxRequests
ProbeLimit == IF cfg.MaxRequests = 0 THEN 1 ELSE cfg.MaxRequests

\* C1: a 5xx or 429 answer is retried: when an attempt of a call with a live
\* context, a Closed breaker and retry budget left is answered 503 (or any
\* status >= 500, or 429), the call goes on to another attempt instead of
\* returning; so 503, 503, 200 ends in three attempts and status 200.
C1_RetryableStatusIsRetried ==
  [][\A c \in Callers :
       ( /\ Completed(c)
         /\ ctxErr[c] = ""
         /\ cb'.state = "closed"
         /\ BudgetLeft
         /\ IsStatusOutcome(OutcomeAfter(c))
         /\ (OutcomeAfter(c).status >= 500 \/ OutcomeAfter(c).status = 429) )
       => pc'[c] = "loop"]_vars

\* C2: a transport failure of an attempt is retried while the call context
\* is live and budget remains, and ends the call when the context is
\* already canceled or expired.
C2_TransportFailureIsRetried ==
  [][\A c \in Callers :
       (Completed(c) /\ OutcomeAfter(c).neterr # "")
       => IF ctxErr[c] = ""
            THEN BudgetLeft => pc'[c] = "loop"
            ELSE Returned(c)]_vars

\* C3: a first attempt answered with a status that is neither >= 500 nor 429
\* ends the call after exactly one transport attempt, with a Response of that
\* status and a nil error, and IsSuccess is true exactly for 200..299.
C3_TerminalStatus ==
  /\ \A c \in Callers :
       outs[c] # << >> =>
         ~(IsStatusOutcome(outs[c][1]) /\ outs[c][1].status < 500
             /\ outs[c][1].status # 429)
  /\ (last.outs # << >> /\ IsStatusOutcome(last.outs[1])
        /\ last.outs[1].status < 500 /\ last.outs[1].status # 429)
     => /\ Len(last.outs) = 1
        /\ last.attempts = 1
        /\ last.iters = 1
        /\ last.err = NilErr
        /\ last.status = last.outs[1].status
        /\ IsSuccess(last.status) <=> last.outs[1].status \in 200..299

C3_Witness ==
  /\ last.outs = << StatusOutcome(404) >>
  /\ last.status = 404
  /\ last.err = NilErr
  /\ last.attempts = 1
  /\ ~IsSuccess(last.status)

\* C4: while the breaker is Open and its cooldown has not elapsed, a call
\* that reaches the breaker returns at once: no transport attempt, exactly
\* one retry iteration, and an error whose cause is the circuit-open error.
C4_OpenFailsFast ==
  [][\A c \in Callers :
       (Iterated(c) /\ iters[c] = 0 /\ cb.state = "open" /\ ~(cb.expiry < now))
       => /\ Returned(c)
          /\ last'.attempts = 0
          /\ last'.iters = 1
          /\ last'.status = 0
          /\ Cause(last'.err) = ErrOpenState
          /\ cb' = cb]_vars

C4_Witness ==
  /\ last.err = Wrap("request failed", ErrOpenState)
  /\ last.attempts = 0
  /\ last.iters = 1
  /\ cb.state = "open"

\* C5: a call whose body cannot be serialized never enters the retry loop:
\* it returns the marshalling error with zero attempts and zero iterations,
\* and the step leaves the breaker's state and counters as they were.
C5_EncodingErrorIsFatal ==
  /\ [](\A c \in Callers : pc[c] # "idle" => body[c] # "marshal")
  /\ [][(calls' # calls /\ pc' = pc /\ last'.err # NilErr
           /\ last'.err[1] = "marshal request body")
        => /\ last'.err = Wrap("marshal request body", MarshalErr)
           /\ last'.status = 0
           /\ last'.attempts = 0
           /\ last'.iters = 0
           /\ last'.outs = << >>
           /\ cb' = cb
           /\ hoAdmitted' = hoAdmitted]_vars

C5_Witness ==
  /\ last.err = Wrap("marshal request body", MarshalErr)
  /\ last.attempts = 0
  /\ last.iters = 0
  /\ cb.counts.Requests > 0

\* C6: under the default trip predicate the breaker is Open once 5
\* consecutive attempts have failed: a Closed breaker never holds 5
\* consecutive failures.
C6_OpensAfterFiveFailures ==
  (cfg.TripAfter = DefaultTripAfter /\ cb.state = "closed")
    => cb.counts.ConsecutiveFailures < DocumentedTripCount

\* a successful attempt of the current generation completes in Half-Open
ProbeSucceeded(c) ==
  /\ Completed(c)
  /\ cb.state = "half-open"
  /\ gen[c] = cb.generation
  /\ IsStatusOutcome(OutcomeAfter(c))
  /\ OutcomeAfter(c).status < 500 /\ OutcomeAfter(c).status # 429

\* C7 as stated: one successful attempt in Half-Open closes the breaker,
\* whatever MaxRequests is, and the failure counters are zero.
C7_SingleSuccessCloses ==
  [][\A c \in Callers :
       ProbeSucceeded(c)
       => /\ cb'.state = "closed"
          /\ cb'.counts.TotalFailures = 0
          /\ cb'.counts.ConsecutiveFailures = 0]_vars

\* C7 amended: a successful attempt in Half-Open closes the breaker exactly
\* when it is the MaxRequests-th consecutive success of the Half-Open period
\* (the first when MaxRequests is 0 or 1); until then the breaker stays
\* Half-Open.  Either way the failure counters are zero afterwards.
C7_SuccessesUpToMaxRequestsClose ==
  [][\A c \in Callers :
       ProbeSucceeded(c)
       => /\ cb'.counts.TotalFailures = 0
          /\ cb'.counts.ConsecutiveFailures = 0
          /\ IF cb.counts.ConsecutiveSuccesses + 1 >= ProbeLimit
               THEN cb'.state = "closed" /\ cb'.counts = ZeroCounts
               ELSE /\ cb'.state = "half-open"
                    /\ cb'.counts.ConsecutiveSuccesses
                         = cb.counts.ConsecutiveSuccesses + 1]_vars

C7_Witness ==
  /\ cfg.MaxRequests = DefaultMaxRequests
  /\ cb.state = "half-open"
  /\ cb.counts.ConsecutiveSuccesses = 2
  /\ last.err = NilErr /\ last.status = 200

\* a caller runs the breaker's admission check during a Half-Open period
\* in which `n` probes were already admitted
ArrivesAtFullHalfOpen(c, n) ==
  /\ Iterated(c)
  /\ cb.state = "half-open"
  /\ hoAdmitted >= n

RejectedWithoutTransport(c) ==
  /\ pc'[c] # "inflight"
  /\ hoAdmitted' = hoAdmitted
  /\ Returned(c) => /\ last'.attempts = attempts[c]
                    /\ Cause(last'.err) = ErrTooManyRequests

\* C8 as stated: the attempts admitted in one Half-Open period never exceed
\* the configured MaxRequests, and a caller arriving after that many is
\* rejected without a transport attempt.
C8_ProbesBoundedByMaxRequests ==
  /\ [](cb.state = "half-open" => hoAdmitted <= cfg.MaxRequests)
  /\ [][\A c \in Callers :
          ArrivesAtFullHalfOpen(c, cfg.MaxRequests)
            => RejectedWithoutTransport(c)]_vars

\* C8 amended: the bound is MaxRequests, or 1 when MaxRequests is configured
\* as 0.
C8_ProbesBoundedByProbeLimit ==
  /\ [](/\ cb.state = "half-open" => hoAdmitted <= ProbeLimit
        /\ cb.state = "half-open" => hoAdmitted = cb.counts.Requests)
  /\ [][\A c \in Callers :
          ArrivesAtFullHalfOpen(c, ProbeLimit)
            => RejectedWithoutTransport(c)]_vars

C8_Witness ==
  /\ cfg.MaxRequests = DefaultMaxRequests
  /\ cb.state = "half-open"
  /\ hoAdmitted = DefaultMaxRequests
  /\ last.err = Wrap("request failed", ErrTooManyRequests)
  /\ last.attempts = 0

\* C9 as stated: the breaker leaves Open only in the step of a call that
\* arrives after the cooldown, and that call is admitted; no call is
\* admitted while Open before the cooldown has elapsed.
C9_ArrivingCallOpensHalfOpen ==
  [][/\ (cb.state = "open" /\ cb'.state # "open")
          => /\ cb.expiry < now
             /\ cb'.state = "half-open"
             /\ \E c \in Callers : Admitted(c)
     /\ \A c \in Callers :
          (Admitted(c) /\ cb.state = "open") => cb.expiry < now]_vars

\* C9 amended: the breaker leaves Open only after the cooldown has elapsed,
\* in one step to Half-Open (one new generation), taken lazily by the first
\* breaker operation after the cooldown: the admission check of an arriving
\* call, which is then admitted as the first probe, or the completion of an
\* attempt admitted before the breaker opened, whose result is dropped.  No
\* call is admitted while Open before the cooldown has elapsed.
C9_LazySingleTransition ==
  [][/\ (cb.state = "open" /\ cb'.state # "open")
          => /\ cb.expiry < now
             /\ cb'.state = "half-open"
             /\ cb'.generation = cb.generation + 1
             /\ \/ \E c \in Callers : Admitted(c) /\ hoAdmitted' = 1
                \/ \E c \in Callers :
                     /\ Completed(c)
                     /\ gen[c] < cb.generation
                     /\ hoAdmitted' = 0
                     /\ cb'.counts = ZeroCounts
     /\ \A c \in Callers :
          (Admitted(c) /\ cb.state = "open") => cb.expiry < now
     /\ cb.state = "open" /\ ~(cb.expiry < now) => cb'.state = "open"]_vars

C9_Witness ==
  /\ cb.state = "half-open"
  /\ hoAdmitted = 0
  /\ \E c \in Callers : pc[c] = "idle"

\* C10: with MaxElapsedTime 0 a call makes a single attempt: no call runs a
\* second retry iteration or transport attempt, or waits for a retry, and a
\* failed first attempt is what the caller gets.
C10_ZeroMaxElapsedSingleAttempt ==
  cfg.MaxElapsedTime = 0 =>
    /\ \A c \in Callers :
         /\ iters[c] <= 1 /\ attempts[c] <= 1
         /\ pc[c] = "loop" => iters[c] = 0
    /\ last.iters <= 1 /\ last.attempts <= 1 /\ Len(last.outs) <= 1
    /\ (last.outs # << >> /\ ClosureErr(last.outs[1]) # NilErr)
         => /\ last.status = 0
            /\ last.err = Wrap("request failed", ClosureErr(last.outs[1]))

C10_Witness ==
  /\ cfg.MaxElapsedTime = 0
  /\ last.outs = << StatusOutcome(503) >>
  /\ last.iters = 1
  /\ last.attempts = 1
  /\ last.err = << "request failed", "retryable status", "body" >>

\* C12: retry state is per logical call: while a call of one caller is in
\* progress, a step of another caller (starting a call, or running one of
\* its retry iterations) leaves the delay and the elapsed-time clock that
\* the first call's retry loop reads as they were.
C12_RetryStatePerCall ==
  [][\A c, d \in Callers :
       (c # d /\ pc[c] # "idle" /\ pc'[c] = pc[c] /\ pc'[d] # pc[d])
       => bo' = bo]_vars

\* C13: an attempt whose error is classified non-retryable ends the call in
\* the same step, whatever retry budget remains: the call returns that
\* error, makes no further attempt, starts no backoff delay and takes
\* nothing from the retry policy.
C13_NonRetryableEndsCall ==
  [][\A c \in Callers :
       ( /\ Completed(c)
         /\ ClosureErr(OutcomeAfter(c)) # NilErr
         /\ ~isRetryableError(ClosureErr(OutcomeAfter(c))) )
       => /\ Returned(c)
          /\ last'.err = Wrap("request failed", ClosureErr(OutcomeAfter(c)))
          /\ last'.status = 0
          /\ last'.attempts = attempts[c]
          /\ last'.iters = iters[c]
          /\ wake' = wake
          /\ bo' = bo]_vars

C13_Witness ==
  /\ cfg.MaxElapsedTime = 0
  /\ last.outs = << ReadOutcome(200) >>
  /\ last.err = << "request failed", "read response", "unexpected EOF" >>
  /\ last.attempts = 1
  /\ last.iters = 1

\* C14: every logical call opens exactly one span and ends it exactly once,
\* on every way out: the marshalling-error return, the request-construction
\* return, the failed and the successful return of the retry pipeline, and
\* a panic inside an attempt.  While the call runs its one span is open.
C14_SpanEndedOnce ==
  /\ \A c \in Callers :
       IF pc[c] = "idle"
         THEN span[c] = NoSpan
         ELSE span[c].started = 1 /\ span[c].ended = 0
  /\ last.exit # "none" => last.span.started = 1 /\ last.span.ended = 1

C14_Witness ==
  /\ last.exit = "panic"
  /\ last.outs = << PanicOutcome >>
  /\ last.span.started = 1
  /\ last.span.ended = 1

\* a failed attempt (error, retryable status or panic) of the current
\* generation completes while the breaker is Half-Open
ProbeFailed(c) ==
  /\ Completed(c)
  /\ cb.state = "half-open"
  /\ gen[c] = cb.generation
  /\ \/ ~IsStatusOutcome(OutcomeAfter(c))
     \/ OutcomeAfter(c).status >= 500
     \/ OutcomeAfter(c).status = 429

\* C15: a failed attempt recorded while the breaker is Half-Open moves the
\* breaker to Open in that step, whatever the probe successes counted so
\* far: a new generation with cleared counters, and the cooldown restarted
\* from now.
C15_HalfOpenFailureReopens ==
  [][\A c \in Callers :
       ProbeFailed(c)
       => /\ cb'.state = "open"
          /\ cb'.generation = cb.generation + 1
          /\ cb'.expiry = now + cfg.TimeoutCB
          /\ cb'.counts = ZeroCounts
          /\ hoAdmitted' = 0]_vars

\* a probe of the current Half-Open period is in flight after another
\* probe has succeeded
C15_Witness ==
  /\ cb.state = "half-open"
  /\ cb.counts.ConsecutiveSuccesses >= 1
  /\ \E c \in Callers : pc[c] = "inflight" /\ gen[c] = cb.generation

\* The same program under a scheduler that keeps running every caller's
\* goroutine, with every transport attempt returning (httpClient.Do is
\* bounded by Client.Timeout).
\* Fewer calls are started than under Spec, so that every behaviour's
\* cycles can be examined.
MaxFairCalls == 2
FairNext ==
  \/ \E c \in Callers : calls < MaxFairCalls /\ DoRequest(c)
  \/ \E c \in Callers : Operation(c)
  \/ \E c \in Callers : OperationReturn(c)
  \/ \E c \in Callers : CtxDone(c)
  \/ Tick
FairSpec ==
  /\ Init
  /\ [][FairNext]_vars
  /\ \A c \in Callers : WF_vars(Operation(c)) /\ WF_vars(OperationReturn(c))

\* C16: every logical call eventually ends, given that each transport
\* attempt returns: a call that has entered the retry loop leaves it.
C16_EveryCallReturns ==
  \A c \in Callers : (pc[c] # "idle") ~> (pc[c] = "idle")

C16_Witness ==
  /\ last.exit = "return"
  /\ last.outs = << StatusOutcome(503) >>
  /\ last.err = << "request failed", "retryable status", "body" >>
  /\ \A c \in Callers : pc[c] = "idle"

\* C18 as stated: when a call returns, its span status is Ok exactly when a
\* Response with a 2xx status is returned and Error in every other case,
\* and a returned Response's status code is on the span as an attribute.
C18_OkExactly2xx ==
  last.exit = "return" =>
    /\ last.span.status = (IF last.err = NilErr /\ last.status \in 200..299
                             THEN "ok" ELSE "error")
    /\ last.err = NilErr => last.span.code = last.status

\* C18 amended: the span status is Ok exactly when a Response with a status
\* below 400 is returned (so also for a 3xx such as 304), and Error when the
\* Response's status is 400 or more or an error is returned; a returned
\* Response's status code is on the span as an attribute.
C18_OkBelow400 ==
  last.exit = "return" =>
    /\ last.span.status = (IF last.err = NilErr /\ last.status < 400
                             THEN "ok" ELSE "error")
    /\ last.err = NilErr => last.span.code = last.status /\ last.status # 0
    /\ last.err # NilErr => last.span.code = 0

C18_Witness ==
  /\ last.exit = "return"
  /\ last.err = NilErr
  /\ last.status = 304
  /\ last.span.status = "ok"
  /\ last.span.code = 304

C20_ResponseXorError ==
  /\ last.exit = "return" =>
       /\ (last.status # 0) # (last.err # NilErr)
       /\ last.err = NilErr =>
            /\ last.status \in Statuses
            /\ last.status < 500 /\ last.status # 429
            /\ last.outs # << >>
            /\ last.outs[Len(last.outs)] = StatusOutcome(last.status)
  /\ \A k \in 1..Len(last.outs) :
       (IsStatusOutcome(last.outs[k])
          /\ (last.outs[k].status >= 500 \/ last.outs[k].status = 429)
          /\ k = Len(last.outs))
       => last.err # NilErr /\ last.status = 0

C20_Witness ==
  /\ last.exit = "return"
  /\ last.outs = << StatusOutcome(429) >>
  /\ last.status = 0
  /\ last.err = << "request failed", "retryable status", "body" >>

\* how the breaker's counters can move in one step
CountedFailure ==
  \/ /\ cb'.generation = cb.generation
     /\ cb'.state = cb.state
     /\ cb'.counts = [cb.counts EXCEPT !.TotalFailures = @ + 1,
                                       !.ConsecutiveFailures = @ + 1,
                                       !.ConsecutiveSuccesses = 0]
  \/ /\ cb'.generation = cb.generation + 1
     /\ cb.state \in {"closed", "half-open"}
     /\ cb'.state = "open"
     /\ cb'.counts = ZeroCounts
CountedSuccess ==
  \/ /\ cb'.generation = cb.generation
     /\ cb'.state = cb.state
     /\ cb'.counts = [cb.counts EXCEPT !.TotalSuccesses = @ + 1,
                                       !.ConsecutiveSuccesses = @ + 1,
                                       !.ConsecutiveFailures = 0]
  \/ /\ cb'.generation = cb.generation + 1
     /\ cb.state = "half-open"
     /\ cb'.state = "closed"
     /\ cb'.counts = ZeroCounts
\* nothing counted: the breaker as it was, or only its lazy transition
NotCounted ==
  \/ cb' = cb
  \/ /\ cb'.generation = cb.generation + 1
     /\ cb'.counts = ZeroCounts
     /\ cb'.state = (IF cb.state = "open" THEN "half-open" ELSE cb.state)

\* the attempt ended in a transport error, a body-read error, or a status
\* of 500 or more, or 429
EndedInError(o) ==
  \/ o.neterr # ""
  \/ o.readerr
  \/ IsStatusOutcome(o) /\ (o.status >= 500 \/ o.status = 429)

\* the result arrives after the breaker left the generation that admitted
\* the attempt: by a state change, or by the Closed-state Interval elapsing
ArrivesStale(c) ==
  \/ gen[c] # cb.generation
  \/ cb.state = "closed" /\ cb.expiry # 0 /\ cb.expiry < now

\* a call rejected by the breaker, or one that fails before the retry loop
RejectedOrEarly ==
  \/ \E c \in Callers : Iterated(c) /\ ~Admitted(c)
  \/ calls' # calls

\* C21 as stated: every admitted attempt is counted exactly once when it
\* completes, as a failure iff it ended in a transport error, a body-read
\* error or a status >= 500 or 429, and as a success otherwise; rejected
\* calls and calls failing before the retry loop change no counter.  (Read
\* for attempts that return; a panicking attempt is left aside.)
C21_EveryAttemptCountedOnce ==
  [][/\ \A c \in Callers :
          (Completed(c) /\ ~OutcomeAfter(c).panic) =>
            IF EndedInError(OutcomeAfter(c)) THEN CountedFailure ELSE CountedSuccess
     /\ RejectedOrEarly => cb' = cb]_vars

\* C21 amended: an attempt whose result arrives while the breaker is still
\* in the generation that admitted it is counted exactly once: as a failure
\* iff it ended in a transport error (the caller's own cancellation
\* included), a body-read error, a status >= 500 or 429, or a panic, and as
\* a success otherwise, so a 404 zeroes the consecutive failures.  The
\* failure trips the breaker exactly when the breaker is Half-Open or the
\* trip predicate holds.  A result that arrives after the breaker moved to
\* a new generation is dropped: no counter changes.  Admission counts the
\* request once; rejected calls and calls failing before the retry loop
\* leave the breaker as it was.
C21_CurrentGenerationCountedOnce ==
  [][/\ \A c \in Callers :
          Completed(c) =>
            IF ArrivesStale(c) THEN NotCounted
            ELSE IF EndedInError(OutcomeAfter(c)) \/ OutcomeAfter(c).panic
              THEN /\ CountedFailure
                   /\ cb'.state = "open"
                        <=> \/ cb.state = "half-open"
                            \/ cb.counts.ConsecutiveFailures + 1 > cfg.TripAfter
              ELSE /\ CountedSuccess
                   /\ cb'.generation # cb.generation
                        <=> /\ cb.state = "half-open"
                            /\ cb.counts.ConsecutiveSuccesses + 1 >= ProbeLimit
     /\ \A c \in Callers :
          Admitted(c) =>
            /\ cb'.counts.Requests =
                 1 + (IF cb'.generation = cb.generation THEN cb.counts.Requests ELSE 0)
            /\ cb'.counts.TotalFailures =
                 (IF cb'.generation = cb.generation THEN cb.counts.TotalFailures ELSE 0)
            /\ cb'.counts.TotalSuccesses =
                 (IF cb'.generation = cb.generation THEN cb.counts.TotalSuccesses ELSE 0)
     /\ RejectedOrEarly => cb' = cb]_vars

\* the breaker was tripped by a call that its caller canceled, while an
\* attempt admitted before the trip is still in flight
C21_Witness ==
  /\ cb.state = "open"
  /\ last.outs = << NetOutcome("context canceled") >>
  /\ last.attempts = 1
  /\ hoAdmitted = 0
  /\ \E c \in Callers : pc[c] = "inflight" /\ gen[c] < cb.generation

====
